---- MODULE Spec2Model ----
(***************************************************************************)
(* Model of agstools.feature_importer.FeatureImporter: the comparison of   *)
(* a source and a target feature layer by a caller-chosen uid field and    *)
(* the import of the source features into the target (import_features).    *)
(*                                                                         *)
(* A feature is its 'attributes' dictionary: a function from field names   *)
(* to values.  Values are integers; Null stands for an unset attribute.    *)
(* The feature layers, AttributeMapper, FeatureProcessor and merge_dicts   *)
(* are collaborators whose code is not part of feature_importer.py; they   *)
(* are modelled from their documented contracts.  definition() is taken to *)
(* return the layer's constant definition; a query returns the features by *)
(* ascending object id.                                                    *)
(***************************************************************************)
EXTENDS Integers, Sequences, FiniteSets, TLC

VARIABLES
    src_feat_layer,     \* self.src_feat_layer: [fields, objectIdField, features]
    tgt_feat_layer,     \* self.tgt_feat_layer: [fields, objectIdField, features, nextOid]
    cust_attr_mapper,   \* self.cust_attr_mapper.attribute_map
    auto_attr_mapper,   \* self.auto_attr_mapper.attribute_map
    comp_features,      \* self.comp_features
    pc,                 \* position of the import_features invocation
    src_uid_field,      \* argument of import_features
    tgt_uid_field,      \* argument of import_features
    src_features,       \* local of __comp_features: result of the source query
    add_features,       \* local of import_features (line 133)
    old_features,       \* local of import_features (line 135)
    add_oids,           \* local of import_features (line 140)
    calls,              \* history: remote calls issued by the current invocation
    start,              \* history: both stores when the current invocation began
    hist,               \* history: one summary per finished invocation
    thread,             \* per concurrent invocation: position, locals, history
    inserted            \* history: source object ids of the inserts that returned

vars == <<src_feat_layer, tgt_feat_layer, cust_attr_mapper, auto_attr_mapper,
          comp_features, pc, src_uid_field, tgt_uid_field, src_features,
          add_features, old_features, add_oids, calls, start, hist,
          thread, inserted>>

----------------------------------------------------------------------------
(* Bounds of the model. *)

\* initial number of source features
MaxSrc == 2
\* initial number of target features
MaxTgt == 2
\* number of import_features invocations in a behaviour
MaxRuns == 2

\* an attribute a store holds no value for (None in the REST response)
Null == 0
\* the values of the uid fields
UidVals == {1, 2, 3}

\* every field name of the model, in the order Python's sorted() gives strings
FieldNames == <<"FID", "OBJECTID", "customer_name", "ghost", "gid", "name", "uid">>

Range(s) == {s[i] : i \in DOMAIN s}

EmptyMap == [k \in {} |-> k]

----------------------------------------------------------------------------
(* Configurations: the two layer definitions, the custom attribute mapper  *)
(* handed to __init__ and the uid fields the caller passes.  In every one  *)
(* the caller's uid fields are a pair of the effective map.                *)

Plain ==
    [srcFields |-> {"OBJECTID", "uid", "name"}, srcOid |-> "OBJECTID",
     tgtFields |-> {"OBJECTID", "uid", "name"}, tgtOid |-> "OBJECTID",
     cust |-> EmptyMap, uids |-> <<"uid", "uid">>]

\* source field name, target field customer_name, renamed by the custom map
Rename ==
    [srcFields |-> {"OBJECTID", "uid", "name"}, srcOid |-> "OBJECTID",
     tgtFields |-> {"OBJECTID", "uid", "customer_name"}, tgtOid |-> "OBJECTID",
     cust |-> [k \in {"name"} |-> "customer_name"], uids |-> <<"uid", "uid">>]

\* the custom map overrides the auto map's entry for uid, which is the
\* source uid field; the source field name has no target field
Override ==
    [srcFields |-> {"OBJECTID", "uid", "name"}, srcOid |-> "OBJECTID",
     tgtFields |-> {"OBJECTID", "uid", "gid"}, tgtOid |-> "OBJECTID",
     cust |-> [k \in {"uid"} |-> "gid"], uids |-> <<"uid", "gid">>]

\* the custom map names a field the source layer does not have
BadSrcField ==
    [srcFields |-> {"OBJECTID", "uid", "name"}, srcOid |-> "OBJECTID",
     tgtFields |-> {"OBJECTID", "uid", "name"}, tgtOid |-> "OBJECTID",
     cust |-> [k \in {"ghost"} |-> "name"], uids |-> <<"uid", "uid">>]

\* the custom map names a field the target layer does not have
BadTgtField ==
    [srcFields |-> {"OBJECTID", "uid", "name"}, srcOid |-> "OBJECTID",
     tgtFields |-> {"OBJECTID", "uid", "name"}, tgtOid |-> "OBJECTID",
     cust |-> [k \in {"name"} |-> "ghost"], uids |-> <<"uid", "uid">>]

Configs == {Plain, Rename, Override, BadSrcField, BadTgtField}

(* Further configurations: the object id fields of the two layers have     *)
(* different names, or the caller's uid fields are no pair of the map.     *)

\* the custom map renames the source object id field to the target's
OidRenamed ==
    [srcFields |-> {"OBJECTID", "uid"}, srcOid |-> "OBJECTID",
     tgtFields |-> {"FID", "uid"}, tgtOid |-> "FID",
     cust |-> [k \in {"OBJECTID"} |-> "FID"], uids |-> <<"uid", "uid">>]

\* neither object id field is a key or a value of the effective map
OidUnmapped ==
    [srcFields |-> {"OBJECTID", "uid"}, srcOid |-> "OBJECTID",
     tgtFields |-> {"FID", "uid"}, tgtOid |-> "FID",
     cust |-> EmptyMap, uids |-> <<"uid", "uid">>]

\* the caller passes uid and gid; the map sends uid to uid and name to gid
UidUnpaired ==
    [srcFields |-> {"OBJECTID", "uid", "name"}, srcOid |-> "OBJECTID",
     tgtFields |-> {"OBJECTID", "uid", "gid"}, tgtOid |-> "OBJECTID",
     cust |-> [k \in {"name"} |-> "gid"], uids |-> <<"uid", "gid">>]

\* the custom map renames the source object id field to the target's and
\* sends name to a target field that is called like the source object id
\* field
OidShadowed ==
    [srcFields |-> {"OBJECTID", "uid", "name"}, srcOid |-> "OBJECTID",
     tgtFields |-> {"FID", "uid", "OBJECTID"}, tgtOid |-> "FID",
     cust |-> [k \in {"OBJECTID", "name"} |-> IF k = "name" THEN "OBJECTID" ELSE "FID"],
     uids |-> <<"uid", "uid">>]

AllConfigs == Configs \cup {OidRenamed, OidUnmapped, UidUnpaired, OidShadowed}

\* the contents a layer with these fields can hold: n features with object
\* ids 1..n, any uid values, and in every other field a value of its own
Contents(fields, oid, uid, n, base) ==
    { {[f \in fields |-> IF f = oid THEN i
                         ELSE IF f = uid THEN us[i] ELSE base + i] : i \in 1..n} :
        us \in [1..n -> UidVals] }

----------------------------------------------------------------------------
(* Collaborators, from their contracts. *)

\* utility.merge_dicts(a, b): a's entries, overridden by b's
merge_dicts(a, b) ==
    [k \in DOMAIN a \cup DOMAIN b |-> IF k \in DOMAIN b THEN b[k] ELSE a[k]]

RECURSIVE SeqByOid(_, _)
\* the features of a store as a sequence, by ascending object id
SeqByOid(S, oid) ==
    IF S = {} THEN <<>>
    ELSE LET r == CHOOSE x \in S : \A y \in S : x[oid] <= y[oid]
         IN  <<r>> \o SeqByOid(S \ {r}, oid)

\* the store rejects a query that names a field its layer does not have
QueryAccepted(layer, outFields) == Range(outFields) \subseteq layer.fields

\* FeatureLayer.query_features_batch(where='1=1', outFields=...): every
\* feature of the layer, each with the requested attributes only
query_features_batch(layer, outFields) ==
    LET all == SeqByOid(layer.features, layer.objectIdField)
    IN  [i \in DOMAIN all |-> [f \in Range(outFields) |-> all[i][f]]]

\* the record the store keeps for an inserted feature: its own object id,
\* the attributes the feature carries, Null for the fields it does not carry
NewRecord(layer, attrs, id) ==
    [f \in layer.fields |->
        IF f = layer.objectIdField THEN id
        ELSE IF f \in DOMAIN attrs THEN attrs[f] ELSE Null]

\* FeatureLayer.add_features_batch(features=...): one batch, fresh object ids
add_features_batch(layer, feats) ==
    [layer EXCEPT
        !.features = @ \cup {NewRecord(layer, feats[i], layer.nextOid + i - 1) :
                                i \in DOMAIN feats},
        !.nextOid = @ + Len(feats)]

\* FeatureLayer.delete_features(objectIds=...): the ids are sent as the
\* decimal numbers joined by ', '; the store deletes the features so named
delete_features(layer, objectIds) ==
    [layer EXCEPT
        !.features = {r \in @ : r[layer.objectIdField] \notin Range(objectIds)}]

\* FeatureProcessor.replace_attributes(name_map) on one feature: the mapped
\* attributes under their new names, the unmapped ones dropped
replace_attributes(feat, name_map) ==
    LET ks == DOMAIN feat \cap DOMAIN name_map
    IN  [t \in {name_map[k] : k \in ks} |->
            feat[CHOOSE k \in ks : name_map[k] = t]]

\* FeatureProcessor.remove_attributes(names) on one feature
remove_attributes(feat, names) == [k \in DOMAIN feat \ names |-> feat[k]]

----------------------------------------------------------------------------
(* feature_importer.py *)

\* __build_auto_attr_mapper (lines 36-43)
build_auto_attr_mapper(src, tgt) == [f \in src.fields \cap tgt.fields |-> f]

\* __get_attr_map with the arguments of merge_dicts exchanged
get_attr_map_auto_wins(auto, cust) == merge_dicts(cust, auto)

\* __get_attr_map without the custom mapper
get_attr_map_auto_only(auto, cust) == auto

\* __get_attr_map (line 108)
get_attr_map(auto, cust) == merge_dicts(auto, cust)

attr_map == get_attr_map(auto_attr_mapper, cust_attr_mapper)

\* line 75: [k for k, v in sorted(attr_map.items())]
src_attr(m) == SelectSeq(FieldNames, LAMBDA k : k \in DOMAIN m)

\* line 77: [v for k, v in sorted(attr_map.items())]
tgt_attr(m) == [i \in DOMAIN src_attr(m) |-> m[src_attr(m)[i]]]

\* __reset_comp_features (lines 52-53)
reset_comp_features ==
    [src |-> [index |-> <<>>, matched |-> <<>>, unmatched |-> <<>>],
     tgt |-> [index |-> <<>>, matched |-> <<>>, unmatched |-> <<>>]]

\* f['attributes'][k] raises KeyError for a feature without attribute k
HasKeys(feats, ks) == \A i \in DOMAIN feats : ks \subseteq DOMAIN feats[i]

\* lines 84-87: {f[uid]: f[oid] for f in features}; a later feature with
\* the same uid overwrites an earlier one
build_index(feats, uid, oid) ==
    [u \in {feats[i][uid] : i \in DOMAIN feats} |->
        LET last == CHOOSE i \in DOMAIN feats :
                        /\ feats[i][uid] = u
                        /\ \A j \in DOMAIN feats : feats[j][uid] = u => j <= i
        IN  feats[last][oid]]

\* lines 90-91 and 94-95
matched(feats, uid, index) == SelectSeq(feats, LAMBDA f : f[uid] \in DOMAIN index)

\* unmatched testing the uid against the index's values, not its keys
unmatched_by_value(feats, uid, index) ==
    SelectSeq(feats, LAMBDA f : f[uid] \notin Range(index))

\* lines 92-93 and 96-97
unmatched(feats, uid, index) == SelectSeq(feats, LAMBDA f : f[uid] \notin DOMAIN index)

\* lines 84-97 on the two query results
compare(srcF, tgtF, su, tu) ==
    LET si == build_index(srcF, su, src_feat_layer.objectIdField)
        ti == build_index(tgtF, tu, tgt_feat_layer.objectIdField)
    IN  [src |-> [index |-> si, matched |-> matched(srcF, su, ti),
                  unmatched |-> unmatched(srcF, su, ti)],
         tgt |-> [index |-> ti, matched |-> matched(tgtF, tu, si),
                  unmatched |-> unmatched(tgtF, tu, si)]]

\* line 133 without deepcopy: add_features is the list held in comp_features
SharesFeaturesNoCopy == TRUE

\* line 133: deepcopy gives add_features feature objects of its own
SharesFeatures == FALSE

\* the object ids taken from src.index by uid, not from the features
oids_from_index(feats) ==
    [i \in DOMAIN feats |-> comp_features.src.index[feats[i][src_uid_field]]]

\* line 140 and line 155: [f['attributes'][src_oid_field] for f in features]
oids_of(feats) == [i \in DOMAIN feats |-> feats[i][src_feat_layer.objectIdField]]

\* projected without the renaming of line 145
projected_unrenamed(feats, m) ==
    [i \in DOMAIN feats |->
        remove_attributes(feats[i], {src_feat_layer.objectIdField})]

\* lines 143-147: the features handed to add_features_batch
projected(feats, m) ==
    [i \in DOMAIN feats |->
        remove_attributes(replace_attributes(feats[i], m),
                          {src_feat_layer.objectIdField})]

\* lines 143-147: the FeatureProcessor renames and strips the feature
\* objects it was given; comp_features sees that only if it holds the same
\* objects
comp_after_processing ==
    IF SharesFeatures
    THEN [comp_features EXCEPT !.src.unmatched = projected(add_features, attr_map)]
    ELSE comp_features

----------------------------------------------------------------------------
(* The state after FeatureImporter(src_feat_layer, tgt_feat_layer, mapper).  *)

\* the invocations of import_features that may run at the same time
Threads == {1, 2}

\* an invocation that has not begun: no locals yet
IdleThread ==
    [pc |-> "idle", src_features |-> <<>>, tgt_features |-> <<>>,
     i |-> 1, acc |-> <<>>, add_features |-> <<>>, old_features |-> <<>>,
     add_oids |-> <<>>, own |-> reset_comp_features,
     used |-> [unmatched |-> <<>>, matched |-> <<>>], read |-> FALSE,
     overlapped |-> FALSE]

InitFor(cs) ==
    \E c \in cs, n \in 0..MaxSrc, m \in 0..MaxTgt :
    \E sf \in Contents(c.srcFields, c.srcOid, c.uids[1], n, 20),
       tf \in Contents(c.tgtFields, c.tgtOid, c.uids[2], m, 30) :
        /\ src_feat_layer = [fields |-> c.srcFields, objectIdField |-> c.srcOid,
                             features |-> sf]
        /\ tgt_feat_layer = [fields |-> c.tgtFields, objectIdField |-> c.tgtOid,
                             features |-> tf, nextOid |-> m + 1]
        /\ cust_attr_mapper = c.cust
        /\ auto_attr_mapper = build_auto_attr_mapper(src_feat_layer, tgt_feat_layer)
        /\ comp_features = reset_comp_features
        /\ pc = "idle"
        /\ src_uid_field = c.uids[1]
        /\ tgt_uid_field = c.uids[2]
        /\ src_features = <<>>
        /\ add_features = <<>>
        /\ old_features = <<>>
        /\ add_oids = <<>>
        /\ calls = <<>>
        /\ start = [src |-> sf, tgt |-> tf]
        /\ hist = <<>>
        /\ thread = [t \in Threads |-> IdleThread]
        /\ inserted = <<>>

Init == InitFor(Configs)

\* the same, over every configuration
InitAny == InitFor(AllConfigs)

----------------------------------------------------------------------------
(* import_features, one action per remote call and outcome.  A remote call  *)
(* either returns or raises; nothing in import_features catches.            *)

Call(op, layer, arg, ok) == [op |-> op, layer |-> layer, arg |-> arg, ok |-> ok]

\* the invocation ends (result "returned" or "raised"): its locals are gone
Finish(result, cs, srcF, tgtF, cf) ==
    /\ pc' = "idle"
    /\ src_features' = <<>>
    /\ add_features' = <<>>
    /\ old_features' = <<>>
    /\ add_oids' = <<>>
    /\ hist' = Append(hist, [result |-> result, calls |-> cs, start |-> start,
                             src |-> srcF, tgt |-> tgtF, comp |-> cf])

Config == <<cust_attr_mapper, auto_attr_mapper, src_uid_field, tgt_uid_field>>

\* the state of the concurrent invocations, untouched by a lone invocation
conc == <<thread, inserted>>

\* ImportStart without the reset of line 65
ImportStartNoReset ==
    /\ pc = "idle"
    /\ Len(hist) < MaxRuns
    /\ pc' = "query_src"
    /\ calls' = <<>>
    /\ start' = [src |-> src_feat_layer.features, tgt |-> tgt_feat_layer.features]
    /\ UNCHANGED <<src_feat_layer, tgt_feat_layer, Config, comp_features,
                   src_features, add_features, old_features, add_oids, hist>>
    /\ UNCHANGED conc

\* lines 123 and 65: import_features calls __comp_features, which resets
ImportStart ==
    /\ pc = "idle"
    /\ Len(hist) < MaxRuns
    /\ comp_features' = reset_comp_features
    /\ pc' = "query_src"
    /\ calls' = <<>>
    /\ start' = [src |-> src_feat_layer.features, tgt |-> tgt_feat_layer.features]
    /\ UNCHANGED <<src_feat_layer, tgt_feat_layer, Config, src_features,
                   add_features, old_features, add_oids, hist>>
    /\ UNCHANGED conc

\* line 80 returns
QuerySrcOk ==
    /\ pc = "query_src"
    /\ QueryAccepted(src_feat_layer, src_attr(attr_map))
    /\ src_features' = query_features_batch(src_feat_layer, src_attr(attr_map))
    /\ calls' = Append(calls, Call("query", "src", src_attr(attr_map), TRUE))
    /\ pc' = "query_tgt"
    /\ UNCHANGED <<src_feat_layer, tgt_feat_layer, Config, comp_features,
                   add_features, old_features, add_oids, start, hist>>
    /\ UNCHANGED conc

\* line 80 raises
QuerySrcFail ==
    /\ pc = "query_src"
    /\ calls' = Append(calls, Call("query", "src", src_attr(attr_map), FALSE))
    /\ Finish("raised", calls', src_feat_layer.features, tgt_feat_layer.features,
              comp_features)
    /\ UNCHANGED <<src_feat_layer, tgt_feat_layer, Config, comp_features, start>>
    /\ UNCHANGED conc

\* lines 133-153 after the comparison: which remote call comes next
AfterCompare(cf, cs) ==
    IF Len(cf.src.unmatched) > 0
    THEN /\ pc' = "add"
         /\ add_features' = cf.src.unmatched
         /\ old_features' = cf.src.matched
         /\ UNCHANGED <<src_features, add_oids, hist>>
    ELSE IF Len(cf.src.matched) > 0
    THEN /\ pc' = "purge"
         /\ add_features' = cf.src.unmatched
         /\ old_features' = cf.src.matched
         /\ UNCHANGED <<src_features, add_oids, hist>>
    ELSE Finish("returned", cs, src_feat_layer.features, tgt_feat_layer.features, cf)

\* line 81 returns; lines 84-97 and 126-135 follow without a remote call
QueryTgtOk ==
    /\ pc = "query_tgt"
    /\ QueryAccepted(tgt_feat_layer, tgt_attr(attr_map))
    /\ calls' = Append(calls, Call("query", "tgt", tgt_attr(attr_map), TRUE))
    /\ LET tgtF == query_features_batch(tgt_feat_layer, tgt_attr(attr_map))
           srcKeys == HasKeys(src_features, {src_uid_field, src_feat_layer.objectIdField})
           tgtKeys == HasKeys(tgtF, {tgt_uid_field, tgt_feat_layer.objectIdField})
       IN  IF ~srcKeys
           THEN \* KeyError at line 84
                /\ comp_features' = comp_features
                /\ Finish("raised", calls', src_feat_layer.features,
                          tgt_feat_layer.features, comp_features')
           ELSE IF ~tgtKeys
           THEN \* KeyError at line 86
                /\ comp_features' =
                     [comp_features EXCEPT !.src.index =
                        build_index(src_features, src_uid_field,
                                    src_feat_layer.objectIdField)]
                /\ Finish("raised", calls', src_feat_layer.features,
                          tgt_feat_layer.features, comp_features')
           ELSE /\ comp_features' = compare(src_features, tgtF, src_uid_field,
                                            tgt_uid_field)
                /\ AfterCompare(comp_features', calls')
    /\ UNCHANGED <<src_feat_layer, tgt_feat_layer, Config, start>>
    /\ UNCHANGED conc

\* line 81 raises
QueryTgtFail ==
    /\ pc = "query_tgt"
    /\ calls' = Append(calls, Call("query", "tgt", tgt_attr(attr_map), FALSE))
    /\ Finish("raised", calls', src_feat_layer.features, tgt_feat_layer.features,
              comp_features)
    /\ UNCHANGED <<src_feat_layer, tgt_feat_layer, Config, comp_features, start>>
    /\ UNCHANGED conc

\* lines 140-149, add_features_batch returns
AddFeaturesOk ==
    /\ pc = "add"
    /\ add_oids' = oids_of(add_features)
    /\ tgt_feat_layer' = add_features_batch(tgt_feat_layer,
                                            projected(add_features, attr_map))
    /\ calls' = Append(calls, Call("add", "tgt", projected(add_features, attr_map), TRUE))
    /\ add_features' = projected(add_features, attr_map)
    /\ comp_features' = comp_after_processing
    /\ pc' = "delete_added"
    /\ UNCHANGED <<src_feat_layer, Config, src_features, old_features, start, hist>>
    /\ UNCHANGED conc

\* AddFeaturesFail with the error of add_features_batch caught and dropped
AddFeaturesFailSwallowed ==
    /\ pc = "add"
    /\ add_oids' = oids_of(add_features)
    /\ calls' = Append(calls, Call("add", "tgt", projected(add_features, attr_map), FALSE))
    /\ add_features' = projected(add_features, attr_map)
    /\ comp_features' = comp_after_processing
    /\ pc' = "delete_added"
    /\ UNCHANGED <<src_feat_layer, tgt_feat_layer, Config, src_features,
                   old_features, start, hist>>
    /\ UNCHANGED conc

\* lines 140-149, add_features_batch raises
AddFeaturesFail ==
    /\ pc = "add"
    /\ calls' = Append(calls, Call("add", "tgt", projected(add_features, attr_map), FALSE))
    /\ comp_features' = comp_after_processing
    /\ Finish("raised", calls', src_feat_layer.features, tgt_feat_layer.features,
              comp_features')
    /\ UNCHANGED <<src_feat_layer, tgt_feat_layer, Config, start>>
    /\ UNCHANGED conc

\* DeleteAddedOk with line 153 an 'elif': no purge after an import
DeleteAddedOkNoPurge ==
    /\ pc = "delete_added"
    /\ src_feat_layer' = delete_features(src_feat_layer, add_oids)
    /\ calls' = Append(calls, Call("delete", "src", add_oids, TRUE))
    /\ Finish("returned", calls', src_feat_layer'.features,
              tgt_feat_layer.features, comp_features)
    /\ UNCHANGED <<tgt_feat_layer, Config, comp_features, start>>
    /\ UNCHANGED conc

\* line 152 returns
DeleteAddedOk ==
    /\ pc = "delete_added"
    /\ src_feat_layer' = delete_features(src_feat_layer, add_oids)
    /\ calls' = Append(calls, Call("delete", "src", add_oids, TRUE))
    /\ IF Len(old_features) > 0
       THEN /\ pc' = "purge"
            /\ UNCHANGED <<src_features, add_features, old_features, add_oids, hist>>
       ELSE Finish("returned", calls', src_feat_layer'.features,
                   tgt_feat_layer.features, comp_features)
    /\ UNCHANGED <<tgt_feat_layer, Config, comp_features, start>>
    /\ UNCHANGED conc

\* DeleteAddedFail with the error of delete_features caught and dropped
DeleteAddedFailSwallowed ==
    /\ pc = "delete_added"
    /\ calls' = Append(calls, Call("delete", "src", add_oids, FALSE))
    /\ IF Len(old_features) > 0
       THEN /\ pc' = "purge"
            /\ UNCHANGED <<src_features, add_features, old_features, add_oids, hist>>
       ELSE Finish("returned", calls', src_feat_layer.features,
                   tgt_feat_layer.features, comp_features)
    /\ UNCHANGED <<src_feat_layer, tgt_feat_layer, Config, comp_features, start>>
    /\ UNCHANGED conc

\* line 152 raises
DeleteAddedFail ==
    /\ pc = "delete_added"
    /\ calls' = Append(calls, Call("delete", "src", add_oids, FALSE))
    /\ Finish("raised", calls', src_feat_layer.features, tgt_feat_layer.features,
              comp_features)
    /\ UNCHANGED <<src_feat_layer, tgt_feat_layer, Config, comp_features, start>>
    /\ UNCHANGED conc

\* PurgeOk with line 159 sending add_oids_str, the ids of the other branch
PurgeOkAddOids ==
    /\ pc = "purge"
    /\ src_feat_layer' = delete_features(src_feat_layer, add_oids)
    /\ calls' = Append(calls, Call("delete", "src", add_oids, TRUE))
    /\ Finish("returned", calls', src_feat_layer'.features, tgt_feat_layer.features,
              comp_features)
    /\ UNCHANGED <<tgt_feat_layer, Config, comp_features, start>>
    /\ UNCHANGED conc

\* PurgeOk with line 159 calling delete_features of the target layer
PurgeOkOnTarget ==
    /\ pc = "purge"
    /\ tgt_feat_layer' = delete_features(tgt_feat_layer, oids_of(old_features))
    /\ calls' = Append(calls, Call("delete", "tgt", oids_of(old_features), TRUE))
    /\ Finish("returned", calls', src_feat_layer.features, tgt_feat_layer'.features,
              comp_features)
    /\ UNCHANGED <<src_feat_layer, Config, comp_features, start>>
    /\ UNCHANGED conc

\* lines 155-159, delete_features returns
PurgeOk ==
    /\ pc = "purge"
    /\ src_feat_layer' = delete_features(src_feat_layer, oids_of(old_features))
    /\ calls' = Append(calls, Call("delete", "src", oids_of(old_features), TRUE))
    /\ Finish("returned", calls', src_feat_layer'.features, tgt_feat_layer.features,
              comp_features)
    /\ UNCHANGED <<tgt_feat_layer, Config, comp_features, start>>
    /\ UNCHANGED conc

\* lines 155-159, delete_features raises
PurgeFail ==
    /\ pc = "purge"
    /\ calls' = Append(calls, Call("delete", "src", oids_of(old_features), FALSE))
    /\ Finish("raised", calls', src_feat_layer.features, tgt_feat_layer.features,
              comp_features)
    /\ UNCHANGED <<src_feat_layer, tgt_feat_layer, Config, comp_features, start>>
    /\ UNCHANGED conc

Next ==
    \/ ImportStart
    \/ QuerySrcOk
    \/ QuerySrcFail
    \/ QueryTgtOk
    \/ QueryTgtFail
    \/ AddFeaturesOk
    \/ AddFeaturesFail
    \/ DeleteAddedOk
    \/ DeleteAddedFail
    \/ PurgeOk
    \/ PurgeFail

Spec == Init /\ [][Next]_vars

\* import_features under every configuration
SpecAny == InitAny /\ [][Next]_vars

\* the pending remote call is answered: it returns if the store accepts it,
\* a query the store rejects raises
Answered ==
    \/ QuerySrcOk
    \/ QueryTgtOk
    \/ AddFeaturesOk
    \/ DeleteAddedOk
    \/ PurgeOk
    \/ QuerySrcFail /\ ~QueryAccepted(src_feat_layer, src_attr(attr_map))
    \/ QueryTgtFail /\ ~QueryAccepted(tgt_feat_layer, tgt_attr(attr_map))

\* no remote call stays pending for ever
Fairness == WF_vars(Answered)

\* store contents in which no two features of a layer share a uid: source
\* uids 1, 2, ..., target uids 2, 3, ..., so that both sides overlap
DistinctUids ==
    /\ \A r \in src_feat_layer.features :
          r[src_uid_field] = r[src_feat_layer.objectIdField]
    /\ \A r \in tgt_feat_layer.features :
          r[tgt_uid_field] = (r[tgt_feat_layer.objectIdField] % Cardinality(UidVals)) + 1

InitFair == InitAny /\ DistinctUids

\* import_features under every configuration, every remote call answered
SpecAnyFair == InitFair /\ [][Next]_vars /\ Fairness

----------------------------------------------------------------------------
(* Two invocations of import_features on one FeatureImporter, running at   *)
(* the same time.  Each has its own locals; self.comp_features and the two *)
(* stores are shared.  Nothing in the class takes a lock, so any other     *)
(* invocation may run between two steps of one.                            *)

\* the variables of a lone invocation, untouched by the concurrent ones
lone == <<pc, src_features, add_features, old_features, add_oids, calls, start, hist>>

Active(t) == thread[t].pc \notin {"idle", "done"}

\* lines 123 and 65: the invocation begins and replaces self.comp_features;
\* the invocations are numbered in the order in which they begin
T_ImportStart(t) ==
    /\ thread[t].pc = "idle"
    /\ \A u \in Threads : u < t => thread[u].pc # "idle"
    /\ comp_features' = reset_comp_features
    /\ thread' = [thread EXCEPT ![t].pc = "query_src",
                                ![t].overlapped = \E u \in Threads \ {t} : Active(u)]
    /\ UNCHANGED <<src_feat_layer, tgt_feat_layer, Config, lone, inserted>>

\* line 80 returns
T_QuerySrc(t) ==
    /\ thread[t].pc = "query_src"
    /\ QueryAccepted(src_feat_layer, src_attr(attr_map))
    /\ thread' = [thread EXCEPT
                    ![t].src_features =
                        query_features_batch(src_feat_layer, src_attr(attr_map)),
                    ![t].pc = "query_tgt"]
    /\ UNCHANGED <<src_feat_layer, tgt_feat_layer, Config, comp_features, lone,
                   inserted>>

\* line 81 returns; own is what lines 84-97 compute from the two results
\* when no other invocation touches self.comp_features meanwhile
T_QueryTgt(t) ==
    /\ thread[t].pc = "query_tgt"
    /\ QueryAccepted(tgt_feat_layer, tgt_attr(attr_map))
    /\ LET srcF == thread[t].src_features
           tgtF == query_features_batch(tgt_feat_layer, tgt_attr(attr_map))
       IN  thread' = [thread EXCEPT
                        ![t].tgt_features = tgtF,
                        ![t].own =
                            IF /\ HasKeys(srcF, {src_uid_field,
                                                 src_feat_layer.objectIdField})
                               /\ HasKeys(tgtF, {tgt_uid_field,
                                                 tgt_feat_layer.objectIdField})
                            THEN compare(srcF, tgtF, src_uid_field, tgt_uid_field)
                            ELSE reset_comp_features,
                        ![t].pc = "src_index"]
    /\ UNCHANGED <<src_feat_layer, tgt_feat_layer, Config, comp_features, lone,
                   inserted>>

\* lines 84-85: the index is built from the local src_features and stored
\* in the dict self.comp_features names now; KeyError ends the invocation
T_StoreSrcIndex(t) ==
    /\ thread[t].pc = "src_index"
    /\ IF HasKeys(thread[t].src_features,
                  {src_uid_field, src_feat_layer.objectIdField})
       THEN /\ comp_features' =
                 [comp_features EXCEPT !.src.index =
                    build_index(thread[t].src_features, src_uid_field,
                                src_feat_layer.objectIdField)]
            /\ thread' = [thread EXCEPT ![t].pc = "tgt_index"]
       ELSE /\ comp_features' = comp_features
            /\ thread' = [thread EXCEPT ![t].pc = "done"]
    /\ UNCHANGED <<src_feat_layer, tgt_feat_layer, Config, lone, inserted>>

\* lines 86-87
T_StoreTgtIndex(t) ==
    /\ thread[t].pc = "tgt_index"
    /\ IF HasKeys(thread[t].tgt_features,
                  {tgt_uid_field, tgt_feat_layer.objectIdField})
       THEN /\ comp_features' =
                 [comp_features EXCEPT !.tgt.index =
                    build_index(thread[t].tgt_features, tgt_uid_field,
                                tgt_feat_layer.objectIdField)]
            /\ thread' = [thread EXCEPT ![t].pc = "src_matched", ![t].i = 1,
                                        ![t].acc = <<>>]
       ELSE /\ comp_features' = comp_features
            /\ thread' = [thread EXCEPT ![t].pc = "done"]
    /\ UNCHANGED <<src_feat_layer, tgt_feat_layer, Config, lone, inserted>>

\* the four list comprehensions of lines 90-97, by the field they fill
Filters == {"src_matched", "src_unmatched", "tgt_matched", "tgt_unmatched"}

\* the local list a comprehension runs over
FilterFeats(t) ==
    IF thread[t].pc \in {"src_matched", "src_unmatched"}
    THEN thread[t].src_features
    ELSE thread[t].tgt_features

\* the condition of a comprehension on one feature: it reads the index of
\* the other side from self.comp_features as it is at that moment
FilterKeeps(t, f) ==
    CASE thread[t].pc = "src_matched" ->
            f[src_uid_field] \in DOMAIN comp_features.tgt.index
      [] thread[t].pc = "src_unmatched" ->
            f[src_uid_field] \notin DOMAIN comp_features.tgt.index
      [] thread[t].pc = "tgt_matched" ->
            f[tgt_uid_field] \in DOMAIN comp_features.src.index
      [] thread[t].pc = "tgt_unmatched" ->
            f[tgt_uid_field] \notin DOMAIN comp_features.src.index

\* self.comp_features after the list of a comprehension has been stored
FilterStored(t) ==
    CASE thread[t].pc = "src_matched" ->
            [comp_features EXCEPT !.src.matched = thread[t].acc]
      [] thread[t].pc = "src_unmatched" ->
            [comp_features EXCEPT !.src.unmatched = thread[t].acc]
      [] thread[t].pc = "tgt_matched" ->
            [comp_features EXCEPT !.tgt.matched = thread[t].acc]
      [] thread[t].pc = "tgt_unmatched" ->
            [comp_features EXCEPT !.tgt.unmatched = thread[t].acc]

\* the statement after a comprehension
FilterNext(t) ==
    CASE thread[t].pc = "src_matched" -> "src_unmatched"
      [] thread[t].pc = "src_unmatched" -> "tgt_matched"
      [] thread[t].pc = "tgt_matched" -> "tgt_unmatched"
      [] thread[t].pc = "tgt_unmatched" -> "read_unmatched"

\* lines 90-97, one pass of a comprehension: the condition is evaluated for
\* the next feature
T_FilterTest(t) ==
    /\ thread[t].pc \in Filters
    /\ thread[t].i <= Len(FilterFeats(t))
    /\ LET f == FilterFeats(t)[thread[t].i]
       IN  thread' = [thread EXCEPT
                        ![t].acc = IF FilterKeeps(t, f) THEN Append(@, f) ELSE @,
                        ![t].i = @ + 1]
    /\ UNCHANGED <<src_feat_layer, tgt_feat_layer, Config, comp_features, lone,
                   inserted>>

\* lines 90-97, the end of a comprehension: its list is stored in the dict
\* self.comp_features names now
T_FilterStore(t) ==
    /\ thread[t].pc \in Filters
    /\ thread[t].i > Len(FilterFeats(t))
    /\ comp_features' = FilterStored(t)
    /\ thread' = [thread EXCEPT ![t].pc = FilterNext(t), ![t].i = 1,
                                ![t].acc = <<>>]
    /\ UNCHANGED <<src_feat_layer, tgt_feat_layer, Config, lone, inserted>>

\* line 133: add_features is copied from self.comp_features as it is now
T_ReadUnmatched(t) ==
    /\ thread[t].pc = "read_unmatched"
    /\ thread' = [thread EXCEPT
                    ![t].add_features = comp_features.src.unmatched,
                    ![t].used.unmatched = comp_features.src.unmatched,
                    ![t].pc = "read_matched"]
    /\ UNCHANGED <<src_feat_layer, tgt_feat_layer, Config, comp_features, lone,
                   inserted>>

\* lines 135-153: old_features is copied from self.comp_features as it is
\* now; the lengths of the two locals decide the next remote call
T_ReadMatched(t) ==
    /\ thread[t].pc = "read_matched"
    /\ thread' = [thread EXCEPT
                    ![t].old_features = comp_features.src.matched,
                    ![t].used.matched = comp_features.src.matched,
                    ![t].read = TRUE,
                    ![t].pc = IF Len(thread[t].add_features) > 0 THEN "add"
                              ELSE IF Len(comp_features.src.matched) > 0 THEN "purge"
                              ELSE "done"]
    /\ UNCHANGED <<src_feat_layer, tgt_feat_layer, Config, comp_features, lone,
                   inserted>>

\* lines 140-149, add_features_batch returns
T_AddFeatures(t) ==
    /\ thread[t].pc = "add"
    /\ tgt_feat_layer' = add_features_batch(tgt_feat_layer,
                              projected(thread[t].add_features, attr_map))
    /\ inserted' = inserted \o oids_of(thread[t].add_features)
    /\ thread' = [thread EXCEPT
                    ![t].add_oids = oids_of(thread[t].add_features),
                    ![t].add_features = projected(thread[t].add_features, attr_map),
                    ![t].pc = "delete_added"]
    /\ UNCHANGED <<src_feat_layer, Config, comp_features, lone>>

\* line 152 returns
T_DeleteAdded(t) ==
    /\ thread[t].pc = "delete_added"
    /\ src_feat_layer' = delete_features(src_feat_layer, thread[t].add_oids)
    /\ thread' = [thread EXCEPT
                    ![t].pc = IF Len(thread[t].old_features) > 0 THEN "purge"
                              ELSE "done"]
    /\ UNCHANGED <<tgt_feat_layer, Config, comp_features, lone, inserted>>

\* lines 155-159, delete_features returns
T_Purge(t) ==
    /\ thread[t].pc = "purge"
    /\ src_feat_layer' = delete_features(src_feat_layer,
                                         oids_of(thread[t].old_features))
    /\ thread' = [thread EXCEPT ![t].pc = "done"]
    /\ UNCHANGED <<tgt_feat_layer, Config, comp_features, lone, inserted>>

\* line 80, 81, 149, 152 or 159 raises: the invocation ends there
T_RemoteFail(t) ==
    /\ thread[t].pc \in {"query_src", "query_tgt", "add", "delete_added", "purge"}
    /\ thread' = [thread EXCEPT ![t].pc = "done"]
    /\ UNCHANGED <<src_feat_layer, tgt_feat_layer, Config, comp_features, lone,
                   inserted>>

NextConc ==
    \/ \E t \in Threads : T_ImportStart(t)
    \/ \E t \in Threads : T_QuerySrc(t)
    \/ \E t \in Threads : T_QueryTgt(t)
    \/ \E t \in Threads : T_StoreSrcIndex(t)
    \/ \E t \in Threads : T_StoreTgtIndex(t)
    \/ \E t \in Threads : T_FilterTest(t)
    \/ \E t \in Threads : T_FilterStore(t)
    \/ \E t \in Threads : T_ReadUnmatched(t)
    \/ \E t \in Threads : T_ReadMatched(t)
    \/ \E t \in Threads : T_AddFeatures(t)
    \/ \E t \in Threads : T_DeleteAdded(t)
    \/ \E t \in Threads : T_Purge(t)
    \/ \E t \in Threads : T_RemoteFail(t)

\* store contents with no more than two uid values: enough for matched,
\* unmatched and repeated uids on both sides
TwoUids ==
    /\ \A r \in src_feat_layer.features : r[src_uid_field] \in {1, 2}
    /\ \A r \in tgt_feat_layer.features : r[tgt_uid_field] \in {1, 2}

\* the configurations in which the uid fields are a pair of the map and no
\* field is missing
InitConc == InitFor({Plain, Override}) /\ TwoUids

SpecConc == InitConc /\ [][NextConc]_vars

----------------------------------------------------------------------------
(* Properties. *)

\* the object ids of a sequence of fetched source features
SrcOids(feats) == Range(oids_of(feats))

\* the insert of the current invocation raised
AddFailed == \E i \in DOMAIN calls : calls[i].op = "add" /\ ~calls[i].ok

\* C1: when the insert of the add-features batch raises, the invocation
\* issues no delete for the object ids of that batch, and the source still
\* holds every feature it held when the invocation began.
C1_NoPrematureDeletion ==
    AddFailed =>
        /\ \A j \in DOMAIN calls :
              calls[j].op = "delete" =>
                  Range(calls[j].arg) \cap SrcOids(comp_features.src.unmatched) = {}
        /\ start.src \subseteq src_feat_layer.features

\* C1 witness: the insert of a batch of two features raised
C1_Witness ==
    /\ AddFailed
    /\ pc = "idle"
    /\ Len(comp_features.src.unmatched) = 2

\* every remote call of a finished invocation returned
AllOk(h) == \A i \in DOMAIN h.calls : h.calls[i].ok

HasCall(h, op) == \E i \in DOMAIN h.calls : h.calls[i].op = op

\* the uid values a target content holds
TgtUids(tgtF) == {t[tgt_uid_field] : t \in tgtF}

\* C2: two invocations in succession, every remote call returning: the
\* second issues no insert, leaves the target as the first left it, and the
\* source ends with no feature whose uid is a key of the target's index.
C2_Idempotence ==
    \A i \in 1..(Len(hist) - 1) :
        LET h == hist[i]
            g == hist[i + 1]
        IN  (AllOk(h) /\ AllOk(g)) =>
                /\ ~HasCall(g, "add")
                /\ g.tgt = h.tgt
                /\ \A r \in g.src :
                      /\ r[src_uid_field] \notin DOMAIN g.comp.tgt.index
                      /\ r[src_uid_field] \notin TgtUids(g.tgt)

\* C2 witness: two such invocations, the first of which imported a feature
\* and purged another
C2_Witness ==
    /\ Len(hist) = 2
    /\ AllOk(hist[1]) /\ AllOk(hist[2])
    /\ Len(hist[1].calls) = 5

\* the invocation inserted its batch and its delete of the batch raised
AddOkDeleteFailed(h) ==
    /\ Len(h.calls) = 4
    /\ h.calls[3].op = "add" /\ h.calls[3].ok
    /\ h.calls[4].op = "delete" /\ ~h.calls[4].ok

\* C3: after an invocation whose insert returned and whose delete of the
\* inserted batch raised, the next invocation (every call returning) finds
\* every feature of that batch matched, deletes it in the stale branch and
\* inserts nothing, so the target holds one feature per migrated feature.
C3_RecoveryByRerun ==
    \A i \in 1..(Len(hist) - 1) :
        LET h == hist[i]
            g == hist[i + 1]
            batch == h.comp.src.unmatched
        IN  (AddOkDeleteFailed(h) /\ AllOk(g)) =>
                /\ ~HasCall(g, "add")
                /\ g.tgt = h.tgt
                /\ Cardinality(h.tgt) = Cardinality(h.start.tgt) + Len(batch)
                /\ \A k \in DOMAIN batch :
                      LET r == batch[k]
                          oid == r[src_feat_layer.objectIdField]
                      IN  /\ oid \in SrcOids(g.comp.src.matched)
                          /\ oid \notin SrcOids(g.comp.src.unmatched)
                          /\ g.calls[Len(g.calls)].op = "delete"
                          /\ oid \in Range(g.calls[Len(g.calls)].arg)
                          /\ \A x \in g.src : x[src_feat_layer.objectIdField] # oid
                          /\ Cardinality({t \in g.tgt : t[tgt_uid_field] = r[src_uid_field]})
                               = Cardinality({j \in DOMAIN batch :
                                                batch[j][src_uid_field] = r[src_uid_field]})

\* C3 witness: such a pair of invocations, the uid field renamed by the map
C3_Witness ==
    /\ Len(hist) = 2
    /\ AddOkDeleteFailed(hist[1])
    /\ AllOk(hist[2])
    /\ src_uid_field # tgt_uid_field

\* C4: after an invocation whose remote calls all returned, no feature the
\* source held is left in it: a feature whose uid the target lacked was
\* inserted and then deleted, a feature whose uid the target held was
\* deleted and not inserted.
C4_SourceDrained ==
    \A i \in DOMAIN hist :
        LET h == hist[i]
            new == h.tgt \ h.start.tgt
            deleted(r) == \E d \in DOMAIN h.calls :
                              /\ h.calls[d].op = "delete"
                              /\ r[src_feat_layer.objectIdField] \in Range(h.calls[d].arg)
        IN  AllOk(h) =>
              /\ \A r \in h.start.src :
                    /\ r \notin h.src
                    /\ IF r[src_uid_field] \notin TgtUids(h.start.tgt)
                       THEN /\ \E a, d \in DOMAIN h.calls :
                                  /\ a < d
                                  /\ h.calls[a].op = "add"
                                  /\ \E p \in Range(h.calls[a].arg) :
                                        p[tgt_uid_field] = r[src_uid_field]
                                  /\ h.calls[d].op = "delete"
                                  /\ r[src_feat_layer.objectIdField] \in Range(h.calls[d].arg)
                            /\ \E t \in new : t[tgt_uid_field] = r[src_uid_field]
                       ELSE /\ deleted(r)
                            /\ \A t \in new : t[tgt_uid_field] # r[src_uid_field]
              /\ Cardinality(new) =
                    Cardinality({r \in h.start.src :
                                    r[src_uid_field] \notin TgtUids(h.start.tgt)})

\* C4 witness: an invocation that imported one feature and purged another
C4_Witness ==
    \E i \in DOMAIN hist :
        /\ AllOk(hist[i])
        /\ Len(hist[i].calls) = 5
        /\ Len(hist[i].comp.src.unmatched) = 1
        /\ Len(hist[i].comp.src.matched) = 1

\* C5: a feature the target holds stays in it unchanged; the only call that
\* changes the target is the one batch insert of an invocation, issued only
\* when src.unmatched is not empty.
C5_TargetOnlyGrows ==
    /\ start.tgt \subseteq tgt_feat_layer.features
    /\ \A i \in DOMAIN hist : hist[i].start.tgt \subseteq tgt_feat_layer.features
    /\ \A i \in DOMAIN calls :
          (calls[i].layer = "tgt" /\ calls[i].op # "query") => calls[i].op = "add"
    /\ Cardinality({i \in DOMAIN calls : calls[i].op = "add"}) <= 1
    /\ HasCall([calls |-> calls], "add") => Len(comp_features.src.unmatched) > 0
    /\ tgt_feat_layer.features # start.tgt =>
          \E i \in DOMAIN calls : calls[i].op = "add" /\ calls[i].ok

\* C5 witness: the second invocation has inserted into a target that held
\* features before each of the two invocations
C5_Witness ==
    /\ Len(hist) = 1
    /\ hist[1].start.tgt # {}
    /\ start.tgt # {}
    /\ pc = "purge"
    /\ \E i \in DOMAIN calls : calls[i].op = "add" /\ calls[i].ok

\* the comparison of the current invocation ran to its end (line 97)
CompCompleted ==
    /\ Len(calls) >= 2
    /\ calls[2].ok
    /\ ~(pc = "idle" /\ AllOk([calls |-> calls]) /\ hist[Len(hist)].result = "raised")

\* what the two queries of the current invocation fetched
FetchedSrc ==
    query_features_batch([src_feat_layer EXCEPT !.features = start.src], calls[1].arg)

FetchedTgt ==
    query_features_batch([tgt_feat_layer EXCEPT !.features = start.tgt], calls[2].arg)

OidsIn(feats, oidField) == {feats[i][oidField] : i \in DOMAIN feats}

IsPartition(side, fetched, oidField) ==
    /\ Len(side.matched) + Len(side.unmatched) = Len(fetched)
    /\ OidsIn(side.matched, oidField) \cap OidsIn(side.unmatched, oidField) = {}
    /\ Range(side.matched) \cup Range(side.unmatched) = Range(fetched)
    /\ Cardinality(OidsIn(side.matched, oidField)) = Len(side.matched)
    /\ Cardinality(OidsIn(side.unmatched, oidField)) = Len(side.unmatched)

\* C6: after a completed comparison, on each side every fetched feature is
\* in exactly one of matched and unmatched.
C6_Partition ==
    CompCompleted =>
        /\ IsPartition(comp_features.src, FetchedSrc, src_feat_layer.objectIdField)
        /\ IsPartition(comp_features.tgt, FetchedTgt, tgt_feat_layer.objectIdField)

\* C6 witness: a comparison with matched and unmatched features on both sides
C6_Witness ==
    /\ CompCompleted
    /\ Len(comp_features.src.matched) > 0 /\ Len(comp_features.src.unmatched) > 0
    /\ Len(comp_features.tgt.matched) > 0 /\ Len(comp_features.tgt.unmatched) > 0

\* C7: the effective map has the keys of the auto map and of the custom map
\* and gives a key the custom map's value when the custom map has it; the
\* two queries ask for its keys and its values.
C7_MapPrecedence ==
    LET A == auto_attr_mapper
        B == cust_attr_mapper
        want(k) == IF k \in DOMAIN B THEN B[k] ELSE A[k]
    IN  /\ DOMAIN attr_map = DOMAIN A \cup DOMAIN B
        /\ \A k \in DOMAIN attr_map : attr_map[k] = want(k)
        /\ Len(calls) >= 1 => Range(calls[1].arg) = DOMAIN A \cup DOMAIN B
        /\ Len(calls) >= 2 =>
              /\ Len(calls[2].arg) = Len(calls[1].arg)
              /\ \A i \in DOMAIN calls[2].arg : calls[2].arg[i] = want(calls[1].arg[i])

\* C7 witness: both queries issued with a key that both maps have, the two
\* maps disagreeing on it
C7_Witness ==
    /\ Len(calls) >= 2
    /\ \E k \in DOMAIN auto_attr_mapper \cap DOMAIN cust_attr_mapper :
          auto_attr_mapper[k] # cust_attr_mapper[k]

\* the custom map names a field one of the layers does not have
BadCustomMap ==
    \E k \in DOMAIN cust_attr_mapper :
        \/ k \notin src_feat_layer.fields
        \/ cust_attr_mapper[k] \notin tgt_feat_layer.fields

\* C8 as stated: with such a custom map the engine fails at construction,
\* before any remote call is issued.
C8_FailsBeforeAnyCall == BadCustomMap => Len(calls) = 0

\* C8 as amended: with such a custom map construction succeeds; the unknown
\* field is sent in the field list of a query, the invocation ends with that
\* query raising, and no insert or delete call is issued.
C8_FailsAtQuery ==
    BadCustomMap =>
        /\ \A i \in DOMAIN calls : calls[i].op = "query"
        /\ Len(calls) >= 1 => DOMAIN cust_attr_mapper \subseteq Range(calls[1].arg)
        /\ Len(calls) >= 2 =>
              {cust_attr_mapper[k] : k \in DOMAIN cust_attr_mapper}
                  \subseteq Range(calls[2].arg)
        /\ \A i \in DOMAIN hist :
              LET h == hist[i]
              IN  /\ h.result = "raised"
                  /\ ~h.calls[Len(h.calls)].ok
                  /\ h.src = h.start.src /\ h.tgt = h.start.tgt

\* C8 witness: the source query returned and the target query, which names
\* the unknown target field, raised
C8_Witness ==
    /\ BadCustomMap
    /\ pc = "idle"
    /\ Len(calls) = 2
    /\ calls[1].ok /\ ~calls[2].ok
    /\ "ghost" \in Range(calls[2].arg)
    /\ start.src # {}

\* features of one side with the same uid are classified alike
SameClass(side, fetched, uid) ==
    \A i, j \in DOMAIN fetched :
        fetched[i][uid] = fetched[j][uid] =>
            (fetched[i] \in Range(side.matched) <=> fetched[j] \in Range(side.matched))

\* the index has one entry per uid, the object id of a feature with that uid
IndexOf(side, fetched, uid, oidField) ==
    /\ DOMAIN side.index = {fetched[i][uid] : i \in DOMAIN fetched}
    /\ \A u \in DOMAIN side.index :
          \E i \in DOMAIN fetched : fetched[i][uid] = u /\ fetched[i][oidField] = side.index[u]

\* C9: features of one side that share a uid are all matched or all
\* unmatched, the index keeping one object id per uid; every feature of
\* src.unmatched is inserted and the object id of every one is in the delete.
C9_DuplicateUids ==
    CompCompleted =>
        /\ SameClass(comp_features.src, FetchedSrc, src_uid_field)
        /\ SameClass(comp_features.tgt, FetchedTgt, tgt_uid_field)
        /\ IndexOf(comp_features.src, FetchedSrc, src_uid_field,
                   src_feat_layer.objectIdField)
        /\ IndexOf(comp_features.tgt, FetchedTgt, tgt_uid_field,
                   tgt_feat_layer.objectIdField)
        /\ (Len(calls) >= 3 /\ calls[3].op = "add") =>
              /\ Len(calls[3].arg) = Len(comp_features.src.unmatched)
              /\ calls[3].ok =>
                    Cardinality(tgt_feat_layer.features \ start.tgt)
                        = Len(comp_features.src.unmatched)
        /\ (Len(calls) >= 4 /\ calls[3].op = "add") =>
              /\ calls[4].op = "delete"
              /\ Range(calls[4].arg) =
                    OidsIn(comp_features.src.unmatched, src_feat_layer.objectIdField)
              /\ calls[4].ok =>
                    \A r \in Range(comp_features.src.unmatched) :
                        \A x \in src_feat_layer.features :
                            x[src_feat_layer.objectIdField] # r[src_feat_layer.objectIdField]

\* C9 witness: two source features with one uid, absent from the target,
\* inserted and deleted
C9_Witness ==
    /\ CompCompleted
    /\ Len(comp_features.src.unmatched) = 2
    /\ comp_features.src.unmatched[1][src_uid_field]
          = comp_features.src.unmatched[2][src_uid_field]
    /\ Cardinality(DOMAIN comp_features.src.index) = 1
    /\ Len(calls) = 4 /\ calls[4].ok

\* the feature the source held at the start under the object id of f
Original(f) ==
    CHOOSE r \in start.src :
        r[src_feat_layer.objectIdField] = f[src_feat_layer.objectIdField]

\* C10: a feature handed to the insert has, for each mapped source field k
\* but the source object id field, the key map[k] with the source feature's
\* value of k, and no key that is not a value of the map; a renamed source
\* field name is not a key of it.
C10_ProjectionFidelity ==
    \A c \in DOMAIN calls :
        calls[c].op = "add" =>
            /\ Len(calls[c].arg) = Len(comp_features.src.unmatched)
            /\ \A i \in DOMAIN calls[c].arg :
                  LET p == calls[c].arg[i]
                      r == Original(comp_features.src.unmatched[i])
                  IN  /\ \A k \in DOMAIN attr_map \ {src_feat_layer.objectIdField} :
                            /\ attr_map[k] \in DOMAIN p
                            /\ p[attr_map[k]] = r[k]
                      /\ DOMAIN p \subseteq Range(attr_map)
                      /\ \A k \in DOMAIN attr_map :
                            k \notin Range(attr_map) => k \notin DOMAIN p

\* C10 witness: with custom map name -> customer_name, a feature is inserted
\* with customer_name and without name
C10_Witness ==
    /\ cust_attr_mapper = [k \in {"name"} |-> "customer_name"]
    /\ Len(calls) >= 3
    /\ calls[3].op = "add" /\ calls[3].ok
    /\ "customer_name" \in DOMAIN calls[3].arg[1]
    /\ "name" \notin DOMAIN calls[3].arg[1]

----------------------------------------------------------------------------
(* Properties that range over every configuration (SpecAny).               *)

\* the source feature that the i-th feature of an insert call was made from
SourceOf(i) == comp_features.src.unmatched[i]

\* C11: no feature handed to the insert carries the object id attribute of
\* its source feature, under the field's own name or under the name the
\* effective map gives it.
C11_OidStripped ==
    \A c \in DOMAIN calls :
        calls[c].op = "add" =>
            \A i \in DOMAIN calls[c].arg :
                LET p == calls[c].arg[i]
                    oid == src_feat_layer.objectIdField
                IN  /\ oid \notin DOMAIN p
                    /\ oid \in DOMAIN attr_map => attr_map[oid] \notin DOMAIN p

\* C12: the field list of the source query has every key of the effective
\* map and the source object id field, that of the target query every value
\* and the target object id field, and the two lists are paired by the map.
C12_QueriedFields ==
    /\ Len(calls) >= 1 =>
          /\ calls[1].op = "query" /\ calls[1].layer = "src"
          /\ DOMAIN attr_map \cup {src_feat_layer.objectIdField}
                \subseteq Range(calls[1].arg)
    /\ Len(calls) >= 2 =>
          /\ calls[2].op = "query" /\ calls[2].layer = "tgt"
          /\ {attr_map[k] : k \in DOMAIN attr_map} \cup {tgt_feat_layer.objectIdField}
                \subseteq Range(calls[2].arg)
          /\ \A i \in DOMAIN calls[2].arg :
                /\ i \in DOMAIN calls[1].arg
                /\ calls[1].arg[i] \in DOMAIN attr_map
                /\ calls[2].arg[i] = attr_map[calls[1].arg[i]]

\* C18: every feature handed to the insert has, under tgt_uid_field, the
\* value its source feature has under src_uid_field.
C18_UidCarried ==
    \A c \in DOMAIN calls :
        calls[c].op = "add" =>
            \A i \in DOMAIN calls[c].arg :
                LET p == calls[c].arg[i]
                IN  /\ tgt_uid_field \in DOMAIN p
                    /\ p[tgt_uid_field] = SourceOf(i)[src_uid_field]

\* the object ids of the source features in a sequence
OidsOf(feats) == OidsIn(feats, src_feat_layer.objectIdField)

\* C13: every object id in a delete call is that of a feature inserted by
\* an insert that returned earlier in the invocation, or of a feature whose
\* uid is a key of the target's index; every feature gone from the source
\* was named in a delete that returned.
C13_DeletedIsRepresented ==
    /\ \A d \in DOMAIN calls :
          calls[d].op = "delete" =>
              \A oid \in Range(calls[d].arg) :
                  \/ /\ \E a \in 1..(d - 1) : calls[a].op = "add" /\ calls[a].ok
                     /\ oid \in OidsOf(comp_features.src.unmatched)
                     /\ Cardinality(tgt_feat_layer.features \ start.tgt)
                           = Len(comp_features.src.unmatched)
                  \/ \E r \in Range(comp_features.src.matched) :
                        /\ r[src_feat_layer.objectIdField] = oid
                        /\ r[src_uid_field] \in DOMAIN comp_features.tgt.index
                        /\ \E t \in tgt_feat_layer.features :
                              t[tgt_uid_field] = r[src_uid_field]
    /\ \A r \in start.src \ src_feat_layer.features :
          \E d \in DOMAIN calls :
              /\ calls[d].op = "delete" /\ calls[d].ok
              /\ r[src_feat_layer.objectIdField] \in Range(calls[d].arg)

\* C13 witness: an invocation deleted one inserted and one stale feature
C13_Witness ==
    /\ Len(calls) = 5
    /\ calls[5].ok
    /\ Cardinality(start.src \ src_feat_layer.features) = 2

HasUnmatched == Len(comp_features.src.unmatched) > 0

HasMatched == Len(comp_features.src.matched) > 0

IsCall(c, op, layer) == c.op = op /\ c.layer = layer

\* the calls issued so far are a prefix of: source query, target query,
\* insert and delete of the inserted ids (when src.unmatched is not empty),
\* delete of the stale ids (when src.matched is not empty)
CallOrder ==
    /\ Len(calls) >= 1 => IsCall(calls[1], "query", "src")
    /\ Len(calls) >= 2 => IsCall(calls[2], "query", "tgt")
    /\ Len(calls) >= 3 =>
          IF HasUnmatched
          THEN IsCall(calls[3], "add", "tgt")
          ELSE /\ HasMatched
               /\ IsCall(calls[3], "delete", "src")
               /\ Range(calls[3].arg) = OidsOf(comp_features.src.matched)
               /\ Len(calls) = 3
    /\ Len(calls) >= 4 =>
          /\ IsCall(calls[4], "delete", "src")
          /\ Range(calls[4].arg) = OidsOf(comp_features.src.unmatched)
    /\ Len(calls) >= 5 =>
          /\ HasMatched
          /\ IsCall(calls[5], "delete", "src")
          /\ Range(calls[5].arg) = OidsOf(comp_features.src.matched)
          /\ Len(calls) = 5
    /\ pc = "query_src" => Len(calls) = 0
    /\ pc = "query_tgt" => Len(calls) = 1
    /\ pc = "add" => Len(calls) = 2 /\ HasUnmatched
    /\ pc = "delete_added" => Len(calls) = 3 /\ HasUnmatched
    /\ pc = "purge" => HasMatched /\ Len(calls) = (IF HasUnmatched THEN 4 ELSE 2)
    /\ (pc = "idle" /\ Len(calls) > 0 /\ AllOk([calls |-> calls])) =>
          Len(calls) = 2 + (IF HasUnmatched THEN 2 ELSE 0) + (IF HasMatched THEN 1 ELSE 0)

\* C14: the remote calls of an invocation are, in this order, the source
\* query, the target query, the insert and the delete of the inserted ids
\* (both exactly when src.unmatched is not empty) and the delete of the
\* stale ids (exactly when src.matched is not empty); every invocation that
\* has begun ends, with no more than calls that return.
C14_CallOrder == []CallOrder /\ ((pc # "idle") ~> (pc = "idle"))

\* C14 witness: an invocation that imported and purged has returned
C14_Witness ==
    /\ pc = "idle"
    /\ Len(calls) = 5
    /\ AllOk([calls |-> calls])
    /\ hist[Len(hist)].result = "returned"

\* C15: the held comparison state is empty until both queries of the latest
\* invocation have returned, and after that holds only features, uids and
\* object ids that these queries fetched.
C15_NoStaleComparison ==
    IF Len(calls) < 2 \/ ~calls[2].ok
    THEN comp_features = reset_comp_features
    ELSE LET srcF == FetchedSrc
             tgtF == FetchedTgt
         IN  /\ Range(comp_features.src.matched) \cup Range(comp_features.src.unmatched)
                   \subseteq Range(srcF)
             /\ Range(comp_features.tgt.matched) \cup Range(comp_features.tgt.unmatched)
                   \subseteq Range(tgtF)
             /\ \A u \in DOMAIN comp_features.src.index :
                   \E i \in DOMAIN srcF :
                       /\ srcF[i][src_uid_field] = u
                       /\ srcF[i][src_feat_layer.objectIdField]
                             = comp_features.src.index[u]
             /\ \A u \in DOMAIN comp_features.tgt.index :
                   \E i \in DOMAIN tgtF :
                       /\ tgtF[i][tgt_uid_field] = u
                       /\ tgtF[i][tgt_feat_layer.objectIdField]
                             = comp_features.tgt.index[u]

\* C15 witness: the first invocation filled the comparison state, the
\* source query of the second raised, and the held state is empty
C15_Witness ==
    /\ Len(hist) = 2
    /\ Len(hist[1].comp.src.matched) > 0
    /\ Len(hist[1].comp.src.unmatched) > 0
    /\ ~hist[2].calls[1].ok
    /\ comp_features = reset_comp_features

\* the object ids named in the delete calls that returned
DeletedOids == UNION {Range(calls[d].arg) :
                        d \in {i \in DOMAIN calls : calls[i].op = "delete" /\ calls[i].ok}}

\* C16: a remote call that raises is the last call of its invocation, the
\* invocation ends raised, and both stores hold what they held after the
\* last call that returned; after a raising delete of the inserted ids no
\* delete of the stale ids is issued.
C16_ErrorEndsInvocation ==
    \A i \in DOMAIN calls :
        ~calls[i].ok =>
            /\ i = Len(calls)
            /\ pc = "idle"
            /\ hist[Len(hist)].result = "raised"
            /\ hist[Len(hist)].calls = calls
            /\ src_feat_layer.features =
                  {r \in start.src : r[src_feat_layer.objectIdField] \notin DeletedOids}
            /\ IF \E a \in DOMAIN calls : calls[a].op = "add" /\ calls[a].ok
               THEN /\ start.tgt \subseteq tgt_feat_layer.features
                    /\ Cardinality(tgt_feat_layer.features \ start.tgt)
                          = Len(comp_features.src.unmatched)
               ELSE tgt_feat_layer.features = start.tgt
            /\ (i = 4 /\ calls[3].op = "add") => src_feat_layer.features = start.src

\* C16 witness: the delete of the inserted ids raised while stale features
\* were waiting to be purged
C16_Witness ==
    /\ Len(calls) = 4
    /\ ~calls[4].ok
    /\ HasMatched
    /\ pc = "idle"

\* C17: once the insert has been prepared, the features held in src.matched
\* and src.unmatched still have the queried source field names, the source
\* object id and the values the source held.
C17_ComparisonNotMutated ==
    (CompCompleted /\ Len(calls) >= 3) =>
        /\ Len(comp_features.src.matched) + Len(comp_features.src.unmatched)
              = Len(FetchedSrc)
        /\ \A r \in Range(comp_features.src.matched)
                      \cup Range(comp_features.src.unmatched) :
              /\ DOMAIN r = Range(calls[1].arg)
              /\ src_feat_layer.objectIdField \in DOMAIN r
              /\ \E o \in start.src : \A f \in DOMAIN r : r[f] = o[f]

\* C17 witness: an invocation that renamed name to customer_name for the
\* insert has returned
C17_Witness ==
    /\ cust_attr_mapper = [k \in {"name"} |-> "customer_name"]
    /\ pc = "idle"
    /\ Len(calls) >= 4
    /\ AllOk([calls |-> calls])
    /\ calls[3].op = "add"
    /\ "name" \in DOMAIN comp_features.src.unmatched[1]

NoDoubleInsert ==
    \A i, j \in DOMAIN inserted : inserted[i] = inserted[j] => i = j

UsesOwnComparison ==
    \A t \in Threads :
        thread[t].read =>
            /\ thread[t].used.unmatched = thread[t].own.src.unmatched
            /\ thread[t].used.matched = thread[t].own.src.matched

\* C19 as stated: however two invocations interleave, no source feature is
\* inserted twice and each invocation works from its own comparison.
C19_Interleaved == NoDoubleInsert /\ UsesOwnComparison

\* C19, serialized: when no invocation begins while another is running, no
\* source feature is inserted twice and each invocation works from the
\* comparison it computed.
C19_Serialized ==
    (\A t \in Threads : ~thread[t].overlapped) =>
        NoDoubleInsert /\ UsesOwnComparison

\* C19 witness: one invocation inserted and then failed to delete, the next
\* began after it had ended, found the feature matched and purged it
C19_Witness ==
    /\ \A t \in Threads : thread[t].pc = "done" /\ ~thread[t].overlapped
    /\ Len(inserted) > 0
    /\ \E t \in Threads :
          /\ thread[t].read
          /\ inserted[1] \in OidsOf(thread[t].used.matched)
    /\ inserted[1] \notin {r[src_feat_layer.objectIdField] :
                             r \in src_feat_layer.features}

====
